---- MODULE Spec2Model ----
(***************************************************************************)
(* The calculator skill (.github/skills/calculator/skill.py).              *)
(*                                                                         *)
(* calculate(expression) hands the string to Python's eval() with the      *)
(* globals {"__builtins__": {}} and empty locals, serialises the value     *)
(* with json.dumps, and turns every `Exception` into an error document.    *)
(* The script's main block checks len(sys.argv), prints one document and   *)
(* exits.                                                                  *)
(*                                                                         *)
(* An expression is a sequence of tokens; the string handed to eval() is   *)
(* the tokens joined by single spaces.  The evaluator below is the         *)
(* fragment of Python's expression language over the tokens of `Tokens`:   *)
(* its grammar (precedence, associativity, calls, implicit string          *)
(* concatenation) and its run-time semantics (int and float arithmetic,    *)
(* sequence repetition, short-circuit `or`, name lookup, exceptions).      *)
(***************************************************************************)
EXTENDS Integers, Sequences, FiniteSets, TLC

VARIABLES argv, pc, stdout, exitCode, uncaught, heap, effects, history

vars == <<argv, pc, stdout, exitCode, uncaught, heap, effects, history>>

(***************************************************************************)
(* Bounds of the model.                                                    *)
(***************************************************************************)
\* longest expression (in tokens) over GeneralTokens
MaxLen == 4
\* longest expression (in tokens) over ArithTokens
MaxArithLen == 4
\* longest expression (in tokens) over the digits and operators, no parentheses
MaxChainLen == 5
\* most command-line arguments after the script name
MaxArgs == 2
\* most calculate() calls made by one importing process
MaxCalls == 3
\* largest numerator / denominator magnitude the model's numbers carry
IntBound == 30000

(***************************************************************************)
(* Tokens.  Three of them abbreviate closed Python expressions that reach  *)
(* objects through attribute access on a literal, which eval() permits     *)
(* even with empty builtins.  With C(name) standing for                    *)
(*   {c.__name__: c for c in {}.__class__.__base__.__subclasses__()}[name] *)
(* they are                                                                *)
(*   ThrowAtom    {0: (_ for _ in ())}[0].throw(C('BaseException'))        *)
(*   SetAttrAtom  {}.__class__.__class__.__setattr__(C('JSONEncoder'),     *)
(*                                                   'zz', 1)              *)
(*   GetAttrAtom  C('JSONEncoder').zz                                      *)
(***************************************************************************)
ThrowAtom == "(_ for _ in ()).throw(BaseException)"
SetAttrAtom == "type.__setattr__(JSONEncoder,'zz',1)"
GetAttrAtom == "JSONEncoder.zz"

Digits == {"0", "1", "2", "3"}
ArithOps == {"+", "-", "*", "/", "**"}
ArithTokens == Digits \cup ArithOps \cup {"(", ")"}
Names == {"__import__", "__builtins__"}
GeneralTokens ==
    {"0", "1", "+", "(", ")", "or", "'os'", "...", ThrowAtom} \cup Names
LibTokens == {"1", "0", "/", "or", SetAttrAtom, GetAttrAtom}
Tokens == ArithTokens \cup GeneralTokens \cup LibTokens

DigitValue(t) == CASE t = "0" -> 0 [] t = "1" -> 1 [] t = "2" -> 2 [] t = "3" -> 3

\* all sequences over S of length at most n
SeqsUpTo(S, n) == UNION {[1..k -> S] : k \in 0..n}


(***************************************************************************)
(* Rational arithmetic.  A number is <<n, d>> in lowest terms with d > 0;  *)
(* Over (d = 0) marks a magnitude beyond IntBound.                         *)
(***************************************************************************)
RECURSIVE GCD(_, _)
GCD(a, b) == IF b = 0 THEN a ELSE GCD(b, a % b)

Abs(n) == IF n < 0 THEN -n ELSE n

Over == <<0, 0>>

InRange(q) == q[2] # 0 /\ Abs(q[1]) <= IntBound /\ q[2] <= IntBound

Norm(n, d) ==
    LET g == GCD(Abs(n), Abs(d))
        s == IF d < 0 THEN -1 ELSE 1
    IN  <<(s * n) \div g, (s * d) \div g>>

RECURSIVE IsDyadic(_)
IsDyadic(d) == d = 1 \/ (d > 1 /\ d % 2 = 0 /\ IsDyadic(d \div 2))

\* p op q for op in + - * /, the divisor of / not zero, p and q in range
RatOp(op, p, q) ==
    CASE op = "+" -> Norm(p[1] * q[2] + q[1] * p[2], p[2] * q[2])
      [] op = "-" -> Norm(p[1] * q[2] - q[1] * p[2], p[2] * q[2])
      [] op = "*" -> Norm(p[1] * q[1], p[2] * q[2])
      [] op = "/" -> Norm(p[1] * q[2], p[2] * q[1])

RECURSIVE PowAcc(_, _, _)
PowAcc(q, k, acc) ==
    IF k = 0 THEN acc
    ELSE LET m == <<acc[1] * q[1], acc[2] * q[2]>>
         IN  IF InRange(m) THEN PowAcc(q, k - 1, m) ELSE Over

\* q ** k for an integer k (q # 0 when k < 0), Over beyond the range
RatPow(q, k) ==
    LET b == IF k < 0 THEN Norm(q[2], q[1]) ELSE q
        e == Abs(k)
    IN  IF b = <<0, 1>> THEN (IF e = 0 THEN <<1, 1>> ELSE b)
        ELSE IF b = <<1, 1>> THEN b
        ELSE IF b = <<-1, 1>> THEN (IF e % 2 = 0 THEN <<1, 1>> ELSE b)
        ELSE PowAcc(b, e, <<1, 1>>)

\* the non-negative integers x with x ** k = n (k >= 1): at most one
IntRoots(n, k) == {x \in 0..n : RatPow(<<x, 1>>, k) = <<n, 1>>}

(***************************************************************************)
(* Python values.  Every value is a record [t, n, d, ex]:                  *)
(*   int      n is the value                                               *)
(*   float    an IEEE double.  ex = TRUE: the double is exactly n/d (d a   *)
(*            power of two).  ex = FALSE: the double is the result of      *)
(*            rounding; n/d is the rational it approximates, which it      *)
(*            differs from whenever d is not a power of two (a double is   *)
(*            a dyadic rational).  d = 0: an approximation of an           *)
(*            irrational or untracked value of sign n.                     *)
(*   str      'os' repeated n times (the only string literal is 'os')      *)
(*   tuple    the empty tuple; dict: the empty dict; ellipsis; NoneType;   *)
(*   complex  a non-real power; module, builtin_function_or_method.        *)
(* The sign of a float zero is not tracked (-0.0 is 0.0 here).             *)
(***************************************************************************)
IntV(n) == [t |-> "int", n |-> n, d |-> 1, ex |-> TRUE]
FloatV(n, d, ex) == [t |-> "float", n |-> n, d |-> d, ex |-> ex]
StrV(k) == [t |-> "str", n |-> k, d |-> 1, ex |-> TRUE]
ObjV(t) == [t |-> t, n |-> 0, d |-> 1, ex |-> TRUE]
NoneV == ObjV("NoneType")

IsNum(v) == v.t \in {"int", "float"}
NumQ(v) == <<v.n, v.d>>
\* sign, zero-ness and integrality of v are those of n/d
Known(v) == v.ex \/ (v.d # 0 /\ ~IsDyadic(v.d))
IsIntegral(v) == v.ex /\ v.d = 1

(***************************************************************************)
(* The outcome of evaluating something: a value, or a raised exception of  *)
(* class cls whose str() is text; st is the interpreter state afterwards   *)
(* (heap: attributes set on shared class objects, effects: side effects    *)
(* performed).  OutOfRange marks an evaluation that leaves the range of    *)
(* numbers the model carries; such expressions are not among the inputs.   *)
(***************************************************************************)
Ok(v, st) == [raised |-> FALSE, cls |-> "", text |-> "", val |-> v, st |-> st]
Raise(cls, text, st) ==
    [raised |-> TRUE, cls |-> cls, text |-> text, val |-> NoneV, st |-> st]
OutOfRange(st) == Raise("<out of range>", "", st)

Unsupported(op, a, b, st) ==
    Raise("TypeError",
          "unsupported operand type(s) for "
              \o (IF op = "**" THEN "** or pow()" ELSE op)
              \o ": '" \o a.t \o "' and '" \o b.t \o "'", st)

\* Arith with int / int rounded down to an int (a floor division)
ArithFloorDiv(op, a, b, st) ==
    IF a.d = 0 \/ b.d = 0 THEN OutOfRange(st)
    ELSE IF op = "/" /\ b.n = 0
    THEN IF b.ex
         THEN Raise("ZeroDivisionError",
                    IF a.t = "int" /\ b.t = "int" THEN "division by zero"
                    ELSE "float division by zero", st)
         ELSE OutOfRange(st)
    ELSE LET r == RatOp(op, NumQ(a), NumQ(b))
         IN  IF ~InRange(r) THEN OutOfRange(st)
             ELSE IF a.t = "int" /\ b.t = "int"
             THEN Ok(IntV(r[1] \div r[2]), st)
             ELSE IF \/ op = "*" /\ ((a.ex /\ a.n = 0) \/ (b.ex /\ b.n = 0))
                     \/ op = "/" /\ a.ex /\ a.n = 0
             THEN Ok(FloatV(0, 1, TRUE), st)
             ELSE Ok(FloatV(r[1], r[2], a.ex /\ b.ex /\ IsDyadic(r[2])), st)

\* int and float + - * /  (Objects/longobject.c, Objects/floatobject.c)
Arith(op, a, b, st) ==
    IF a.d = 0 \/ b.d = 0 THEN OutOfRange(st)
    ELSE IF op = "/" /\ b.n = 0
    THEN IF b.ex
         THEN Raise("ZeroDivisionError",
                    IF a.t = "int" /\ b.t = "int" THEN "division by zero"
                    ELSE "float division by zero", st)
         ELSE OutOfRange(st)
    ELSE LET r == RatOp(op, NumQ(a), NumQ(b))
         IN  IF ~InRange(r) THEN OutOfRange(st)
             ELSE IF a.t = "int" /\ b.t = "int" /\ op # "/"
             THEN Ok(IntV(r[1]), st)
             ELSE IF \/ op = "*" /\ ((a.ex /\ a.n = 0) \/ (b.ex /\ b.n = 0))
                     \/ op = "/" /\ a.ex /\ a.n = 0
             THEN Ok(FloatV(0, 1, TRUE), st)
             ELSE Ok(FloatV(r[1], r[2], a.ex /\ b.ex /\ IsDyadic(r[2])), st)

\* float_pow of Objects/floatobject.c on operands whose values are Known
FloatPow(a, b, st) ==
    IF b.n = 0 THEN Ok(FloatV(1, 1, TRUE), st)
    ELSE IF a.n = 0
    THEN IF b.n < 0
         THEN Raise("ZeroDivisionError",
                    "0.0 cannot be raised to a negative power", st)
         ELSE Ok(FloatV(0, 1, TRUE), st)
    ELSE IF a.n < 0 /\ ~IsIntegral(b) THEN Ok(ObjV("complex"), st)
    ELSE IF a.ex /\ NumQ(a) = <<1, 1>> THEN Ok(FloatV(1, 1, TRUE), st)
    ELSE IF a.ex /\ b.ex /\ b.d = 1
    THEN LET r == RatPow(NumQ(a), b.n)
         IN  IF InRange(r) THEN Ok(FloatV(r[1], r[2], IsDyadic(r[2])), st)
             ELSE OutOfRange(st)
    ELSE IF a.ex /\ b.ex
    THEN \* a > 0 to the power p / 2^k: rational iff a has a rational 2^k-th root
         LET xs == IntRoots(a.n, b.d)
             ys == IntRoots(a.d, b.d)
         IN  IF xs = {} \/ ys = {} THEN Ok(FloatV(1, 0, FALSE), st)
             ELSE LET x == CHOOSE x \in xs : TRUE
                      y == CHOOSE y \in ys : TRUE
                      r == RatPow(<<x, y>>, b.n)
                  IN  IF InRange(r)
                      THEN Ok(FloatV(r[1], r[2], IsDyadic(r[2])), st)
                      ELSE OutOfRange(st)
    ELSE Ok(FloatV(IF a.n < 0 /\ b.n % 2 # 0 THEN -1 ELSE 1, 0, FALSE), st)

\* long_pow of Objects/longobject.c, float_pow otherwise
Pow(a, b, st) ==
    IF a.t = "int" /\ b.t = "int" /\ b.n >= 0
    THEN LET r == RatPow(NumQ(a), b.n)
         IN  IF InRange(r) THEN Ok(IntV(r[1]), st) ELSE OutOfRange(st)
    ELSE IF ~Known(a) \/ ~Known(b) THEN OutOfRange(st)
    ELSE FloatPow(a, b, st)

IsSeq(v) == v.t \in {"str", "tuple"}

\* sequence repetition: 'os' * k, () * k
Repeat(s, k, st) ==
    LET m == IF k.n < 0 THEN 0 ELSE s.n * k.n
    IN  IF m > IntBound THEN OutOfRange(st)
        ELSE Ok([s EXCEPT !.n = m], st)

\* the binary operators + - * / ** on two evaluated operands
BinOp(op, a, b, st) ==
    IF a.t = "complex" \/ b.t = "complex" THEN OutOfRange(st)
    ELSE IF IsNum(a) /\ IsNum(b)
    THEN IF op = "**" THEN Pow(a, b, st) ELSE Arith(op, a, b, st)
    ELSE IF op = "+" /\ IsSeq(a)
    THEN IF b.t = a.t
         THEN (IF a.n + b.n > IntBound THEN OutOfRange(st)
               ELSE Ok([a EXCEPT !.n = a.n + b.n], st))
         ELSE Raise("TypeError",
                    "can only concatenate " \o a.t \o " (not \"" \o b.t
                        \o "\") to " \o a.t, st)
    ELSE IF op = "*" /\ IsSeq(a)
    THEN IF b.t = "int" THEN Repeat(a, b, st)
         ELSE Raise("TypeError",
                    "can't multiply sequence by non-int of type '" \o b.t
                        \o "'", st)
    ELSE IF op = "*" /\ IsSeq(b)
    THEN IF a.t = "int" THEN Repeat(b, a, st)
         ELSE Raise("TypeError",
                    "can't multiply sequence by non-int of type '" \o a.t
                        \o "'", st)
    ELSE Unsupported(op, a, b, st)

\* the unary operators + and -
UnOp(op, a, st) ==
    IF a.t = "int" THEN Ok(IntV(IF op = "-" THEN -a.n ELSE a.n), st)
    ELSE IF a.t = "float"
    THEN Ok(FloatV(IF op = "-" THEN -a.n ELSE a.n, a.d, a.ex), st)
    ELSE IF a.t = "complex" THEN OutOfRange(st)
    ELSE Raise("TypeError",
               "bad operand type for unary " \o op \o ": '" \o a.t \o "'", st)

\* bool(v); "?" when the model does not determine it
Truth(v) ==
    CASE v.t = "int" -> IF v.n # 0 THEN "T" ELSE "F"
      [] v.t = "float" ->
            IF v.n # 0 THEN "T" ELSE IF v.ex THEN "F" ELSE "?"
      [] v.t = "str" -> IF v.n > 0 THEN "T" ELSE "F"
      [] v.t \in {"tuple", "dict", "NoneType"} -> "F"
      [] OTHER -> "T"


(***************************************************************************)
(* The parser: Python's expression grammar restricted to Tokens.           *)
(*   expression: sum ('or' sum)*                                           *)
(*   sum:        term (('+' | '-') term)*          left-associative        *)
(*   term:       factor (('*' | '/') factor)*      left-associative        *)
(*   factor:     ('+' | '-') factor | power                                *)
(*   power:      primary ['**' factor]             right-associative       *)
(*   primary:    atom ('(' [['*' | '**'] expression] ')')*      calls      *)
(*   atom:       NUMBER | NAME | STRING+ | '...' | '(' ')'                 *)
(*               | '(' expression ')'                                      *)
(* A parse result is [ok, node, next]: next is the first unread token.     *)
(***************************************************************************)
At(ts, i) == IF i <= Len(ts) THEN ts[i] ELSE "<end>"

Fail == [ok |-> FALSE, node |-> [k |-> "none"], next |-> 0]
Parsed(node, next) == [ok |-> TRUE, node |-> node, next |-> next]

RECURSIVE StrRun(_, _)
\* the index after the run of adjacent string literals starting at i
StrRun(ts, i) == IF At(ts, i) = "'os'" THEN StrRun(ts, i + 1) ELSE i

\* the nodes built from parsed operands; a failed operand fails the whole
BinNode(op, l, r) ==
    IF l.ok /\ r.ok
    THEN Parsed([k |-> "bin", op |-> op, l |-> l.node, r |-> r.node], r.next)
    ELSE Fail
OrNode(l, r) ==
    IF l.ok /\ r.ok THEN Parsed([k |-> "or", l |-> l.node, r |-> r.node], r.next)
    ELSE Fail
UnNode(op, e) ==
    IF e.ok THEN Parsed([k |-> "un", op |-> op, e |-> e.node], e.next) ELSE Fail
\* f(), f(e), f(*e), f(**e): the argument e must be followed by ")"
CallNode(ts, f, star, e) ==
    IF f.ok /\ e.ok /\ At(ts, e.next) = ")"
    THEN Parsed([k |-> "call", f |-> f.node, star |-> star, args |-> <<e.node>>],
                e.next + 1)
    ELSE Fail
CallNoArgs(f) ==
    Parsed([k |-> "call", f |-> f.node, star |-> "", args |-> <<>>], f.next + 2)
\* ( e ): the expression e must be followed by ")"
Closed(ts, e) ==
    IF e.ok /\ At(ts, e.next) = ")" THEN Parsed(e.node, e.next + 1) ELSE Fail
\* the star or stars in front of a call's argument at i
Star(ts, i) == IF At(ts, i) \in {"*", "**"} THEN ts[i] ELSE ""

RECURSIVE ParseExpr(_, _)
RECURSIVE ParseOrRest(_, _)
RECURSIVE ParseSum(_, _)
RECURSIVE ParseSumRest(_, _)
RECURSIVE ParseTerm(_, _)
RECURSIVE ParseTermRest(_, _)
RECURSIVE ParseFactor(_, _)
RECURSIVE ParsePower(_, _)
RECURSIVE ParsePowerRest(_, _)
RECURSIVE ParsePrimary(_, _)
RECURSIVE ParseTrailers(_, _)
RECURSIVE ParseAtom(_, _)

ParseAtom(ts, i) ==
    CASE At(ts, i) \in Digits -> Parsed([k |-> "num", v |-> DigitValue(ts[i])], i + 1)
      [] At(ts, i) \in Names -> Parsed([k |-> "name", id |-> ts[i]], i + 1)
      [] At(ts, i) = "'os'" ->
            Parsed([k |-> "str", n |-> StrRun(ts, i) - i], StrRun(ts, i))
      [] At(ts, i) = "..." -> Parsed([k |-> "ellipsis"], i + 1)
      [] At(ts, i) \in {ThrowAtom, SetAttrAtom, GetAttrAtom} ->
            Parsed([k |-> "reach", what |-> ts[i]], i + 1)
      [] At(ts, i) = "(" ->
            IF At(ts, i + 1) = ")" THEN Parsed([k |-> "tuple"], i + 2)
            ELSE Closed(ts, ParseExpr(ts, i + 1))
      [] OTHER -> Fail

\* the calls that follow the parsed primary f
ParseTrailers(ts, f) ==
    IF ~f.ok \/ At(ts, f.next) # "(" THEN f
    ELSE IF At(ts, f.next + 1) = ")" THEN ParseTrailers(ts, CallNoArgs(f))
    ELSE ParseTrailers(ts,
             CallNode(ts, f, Star(ts, f.next + 1),
                      ParseExpr(ts, IF Star(ts, f.next + 1) = "" THEN f.next + 1
                                    ELSE f.next + 2)))

ParsePrimary(ts, i) == ParseTrailers(ts, ParseAtom(ts, i))

\* the exponent, if any, that follows the parsed primary p
ParsePowerRest(ts, p) ==
    IF p.ok /\ At(ts, p.next) = "**"
    THEN BinNode("**", p, ParseFactor(ts, p.next + 1))
    ELSE p

ParsePower(ts, i) == ParsePowerRest(ts, ParsePrimary(ts, i))

ParseFactor(ts, i) ==
    IF At(ts, i) \in {"+", "-"} THEN UnNode(ts[i], ParseFactor(ts, i + 1))
    ELSE ParsePower(ts, i)

\* the factors that follow the parsed term left
ParseTermRest(ts, left) ==
    IF left.ok /\ At(ts, left.next) \in {"*", "/"}
    THEN ParseTermRest(ts, BinNode(ts[left.next], left,
                                   ParseFactor(ts, left.next + 1)))
    ELSE left

ParseTerm(ts, i) == ParseTermRest(ts, ParseFactor(ts, i))

\* the terms that follow the parsed sum left
ParseSumRest(ts, left) ==
    IF left.ok /\ At(ts, left.next) \in {"+", "-"}
    THEN ParseSumRest(ts, BinNode(ts[left.next], left, ParseTerm(ts, left.next + 1)))
    ELSE left

ParseSum(ts, i) == ParseSumRest(ts, ParseTerm(ts, i))

\* the disjuncts that follow the parsed disjunction left
ParseOrRest(ts, left) ==
    IF left.ok /\ At(ts, left.next) = "or"
    THEN ParseOrRest(ts, OrNode(left, ParseSum(ts, left.next + 1)))
    ELSE left

ParseExpr(ts, i) == ParseOrRest(ts, ParseSum(ts, i))

\* the parse e is of the whole input
Whole(ts, e) == IF e.ok /\ e.next = Len(ts) + 1 THEN e ELSE Fail

\* compile(expression, "<string>", "eval"): the whole input is one expression
Parse(ts) == Whole(ts, ParseExpr(ts, 1))

(***************************************************************************)
(* Name lookup.  eval(expression, allowed_names, {}) resolves a name in    *)
(* the locals, then in the globals, then in the dict that the globals      *)
(* bind to "__builtins__".                                                 *)
(***************************************************************************)
\* the names bound in the dict under "__builtins__" (line 13: none)
Builtins == {}
\* the keys of allowed_names (line 13)
AllowedNames == {"__builtins__"}
\* the keys of the locals (line 14: the empty dict)
Locals == {}

DictV(size) == [t |-> "dict", n |-> size, d |-> 1, ex |-> TRUE]

Lookup(id, st) ==
    IF id \in Locals THEN Ok(NoneV, st)
    ELSE IF id \in AllowedNames THEN Ok(DictV(Cardinality(Builtins)), st)
    ELSE IF id \in Builtins THEN Ok(ObjV("builtin_function_or_method"), st)
    ELSE Raise("NameError", "name '" \o id \o "' is not defined", st)

\* calling f(args): only the builtin __import__ is callable
Call(f, args, st) ==
    IF f.t = "builtin_function_or_method"
    THEN IF Len(args) = 1 /\ args[1].t = "str"
         THEN Ok(ObjV("module"), [st EXCEPT !.effects = @ \cup {"import"}])
         ELSE Raise("TypeError", "__import__() argument 1 must be str", st)
    ELSE Raise("TypeError", "'" \o f.t \o "' object is not callable", st)

RECURSIVE NatStr(_)
NatStr(n) ==
    LET digit == CASE n % 10 = 0 -> "0" [] n % 10 = 1 -> "1" [] n % 10 = 2 -> "2"
                   [] n % 10 = 3 -> "3" [] n % 10 = 4 -> "4" [] n % 10 = 5 -> "5"
                   [] n % 10 = 6 -> "6" [] n % 10 = 7 -> "7" [] n % 10 = 8 -> "8"
                   [] n % 10 = 9 -> "9"
    IN  IF n < 10 THEN digit ELSE NatStr(n \div 10) \o digit

RECURSIVE OsText(_)
OsText(n) == IF n = 0 THEN "" ELSE "os" \o OsText(n - 1)

\* str(f), which names the callee in the errors of a starred call
FuncStr(f) ==
    CASE f.t = "int" -> IF f.n < 0 THEN "-" \o NatStr(-f.n) ELSE NatStr(f.n)
      [] f.t = "str" -> OsText(f.n)
      [] f.t = "tuple" -> "()"
      [] f.t = "dict" -> "{}"
      [] f.t = "ellipsis" -> "Ellipsis"
      [] f.t = "NoneType" -> "None"

\* a call with a starred argument (one star or two): x is unpacked before f is called
StarCall(star, f, x, st) ==
    IF f.t \notin {"int", "str", "tuple", "dict", "ellipsis", "NoneType"}
    THEN OutOfRange(st)
    ELSE IF star = "*"
    THEN IF x.t \in {"str", "tuple", "dict"}
         THEN Call(f, [i \in 1..(IF x.t = "str" THEN 2 * x.n ELSE 0) |-> StrV(1)], st)
         ELSE Raise("TypeError",
                    FuncStr(f) \o " argument after * must be an iterable, not "
                        \o x.t, st)
    ELSE IF x.t = "dict" THEN Call(f, <<>>, st)
         ELSE Raise("TypeError",
                    FuncStr(f) \o " argument after ** must be a mapping, not "
                        \o x.t, st)

\* the three expressions that reach objects through attributes of a literal
Reach(what, st) ==
    IF what = ThrowAtom THEN Raise("BaseException", "", st)
    ELSE IF what = SetAttrAtom
    THEN Ok(NoneV, [st EXCEPT !.heap = @ \cup {"JSONEncoder.zz"}])
    ELSE IF "JSONEncoder.zz" \in st.heap THEN Ok(IntV(1), st)
    ELSE Raise("AttributeError",
               "type object 'JSONEncoder' has no attribute 'zz'", st)

RECURSIVE Eval(_, _)
\* evaluation of a parsed expression, operands left to right
Eval(node, st) ==
    CASE node.k = "num" -> Ok(IntV(node.v), st)
      [] node.k = "str" -> Ok(StrV(node.n), st)
      [] node.k = "ellipsis" -> Ok(ObjV("ellipsis"), st)
      [] node.k = "tuple" -> Ok(ObjV("tuple"), st)
      [] node.k = "name" -> Lookup(node.id, st)
      [] node.k = "reach" -> Reach(node.what, st)
      [] node.k = "un" ->
            LET a == Eval(node.e, st)
            IN  IF a.raised THEN a ELSE UnOp(node.op, a.val, a.st)
      [] node.k = "bin" ->
            LET a == Eval(node.l, st)
            IN  IF a.raised THEN a
                ELSE LET b == Eval(node.r, a.st)
                     IN  IF b.raised THEN b
                         ELSE BinOp(node.op, a.val, b.val, b.st)
      [] node.k = "or" ->
            LET a == Eval(node.l, st)
            IN  IF a.raised \/ Truth(a.val) = "T" THEN a
                ELSE IF Truth(a.val) = "?" THEN OutOfRange(a.st)
                ELSE Eval(node.r, a.st)
      [] node.k = "call" ->
            LET f == Eval(node.f, st)
            IN  IF f.raised THEN f
                ELSE IF Len(node.args) = 0 THEN Call(f.val, <<>>, f.st)
                ELSE LET x == Eval(node.args[1], f.st)
                     IN  IF x.raised THEN x
                         ELSE IF node.star = "" THEN Call(f.val, <<x.val>>, x.st)
                         ELSE StarCall(node.star, f.val, x.val, x.st)

\* eval(expression, allowed_names, {}) of line 14
\* the parse p evaluated, or the SyntaxError of compile(); its text is the one
\* CPython gives for most malformed input ("2 +"), some inputs get another text
EvalParsed(expression, p, st) ==
    IF p.ok THEN Eval(p.node, st)
    ELSE Raise("SyntaxError",
               "invalid syntax (<string>, line "
                   \o (IF Len(expression) = 0 THEN "0" ELSE "1") \o ")", st)

PyEval(expression, st) == EvalParsed(expression, Parse(expression), st)


(***************************************************************************)
(* json.dumps.  A document is the sequence of the dict's items in          *)
(* insertion order; an item's value is a JSON value [j, s, v]: j the JSON  *)
(* type, s the text of a string, v the Python number a number denotes.     *)
(***************************************************************************)
JString(s) == [j |-> "string", s |-> s, v |-> NoneV]
JOther(j, v) == [j |-> j, s |-> "", v |-> v]
Item(key, val) == [key |-> key, val |-> val]

NotSerializable(t, st) ==
    Raise("TypeError", "Object of type " \o t \o " is not JSON serializable", st)

\* json.dumps({"status": "success", "result": result}) of line 16
DumpsSuccess(result, st) ==
    LET doc(jv) == Ok(<<Item("status", JString("success")), Item("result", jv)>>, st)
    IN  CASE result.t \in {"int", "float"} -> doc(JOther("number", result))
          [] result.t = "str" -> doc(JString(OsText(result.n)))
          [] result.t = "tuple" -> doc(JOther("array", NoneV))
          [] result.t = "NoneType" -> doc(JOther("null", NoneV))
          [] result.t = "dict" ->
                IF result.n = 0 THEN doc(JOther("object", NoneV))
                ELSE NotSerializable("builtin_function_or_method", st)
          [] OTHER -> NotSerializable(result.t, st)

\* json.dumps({"status": "error", "message": message}) of lines 19 and 23-26
DumpsError(message) ==
    <<Item("status", JString("error")), Item("message", JString(message))>>

\* the classes `except Exception` (line 17) catches
IsException(cls) ==
    cls \notin {"BaseException", "KeyboardInterrupt", "SystemExit", "GeneratorExit"}

(***************************************************************************)
(* calculate(expression), lines 5-19, run in interpreter state st.         *)
(* returned: the call returned doc; otherwise the exception cls left it.   *)
(* cls, text: the exception raised in the try block, if any.  evRaised,    *)
(* val: whether eval() raised, and the value it produced if not.           *)
(***************************************************************************)
Returned(doc, r, st) ==
    [returned |-> TRUE, doc |-> doc, cls |-> "", text |-> "", st |-> st,
     evRaised |-> r.raised, val |-> r.val]
Propagated(e, r) ==
    [returned |-> FALSE, doc |-> <<>>, cls |-> e.cls, text |-> e.text, st |-> e.st,
     evRaised |-> r.raised, val |-> r.val]

\* an except clause that reports every error with one fixed message
HandlerFixedMessage(e, r) ==
    IF IsException(e.cls) /\ e.cls # "<out of range>"
    THEN [Returned(DumpsError("error"), r, e.st) EXCEPT !.cls = e.cls, !.text = e.text]
    ELSE Propagated(e, r)

\* the except clause of lines 17-19 for the exception e raised in the try block
\* (r is what eval() did: raised, or produced the value val)
Handler(e, r) ==
    IF IsException(e.cls) /\ e.cls # "<out of range>"
    THEN [Returned(DumpsError(e.text), r, e.st) EXCEPT !.cls = e.cls, !.text = e.text]
    ELSE Propagated(e, r)

\* line 16 outside the try block: an exception of json.dumps leaves calculate
ReturnUnguarded(d, r) == IF d.raised THEN Propagated(d, r) ELSE Returned(d.val, r, d.st)

\* line 16 for the outcome d of json.dumps: return its document
Return(d, r) == IF d.raised THEN Handler(d, r) ELSE Returned(d.val, r, d.st)

\* lines 14-19 for the outcome r of eval()
Try(r) ==
    IF r.raised THEN Handler(r, r) ELSE Return(DumpsSuccess(r.val, r.st), r)

Calculate(expression, st) == Try(PyEval(expression, st))

(***************************************************************************)
(* The script run as a process (lines 21-28), and the module imported by   *)
(* a process that calls calculate() repeatedly.                            *)
(***************************************************************************)
Script == <<"skill.py">>
Fresh == [heap |-> {}, effects |-> {}]

\* the expressions whose evaluation stays within the model's number range
InModel(e) == Calculate(e, Fresh).cls # "<out of range>"

Inputs ==
    {e \in SeqsUpTo(GeneralTokens, MaxLen)
            \cup SeqsUpTo(ArithTokens, MaxArithLen)
            \cup SeqsUpTo(Digits \cup ArithOps, MaxChainLen) : InModel(e)}

ShortArgs == SeqsUpTo(GeneralTokens, 1)

\* sys.argv: the script name, then the arguments
CommandLines ==
    {<<Script>>}
        \cup {<<Script, e>> : e \in Inputs}
        \cup UNION {{<<Script>> \o a : a \in [1..k -> ShortArgs]} : k \in 2..MaxArgs}

LibInputs == SeqsUpTo(LibTokens, 1) \cup {<<"1", "/", "0">>, <<"0", "or", GetAttrAtom>>}

UsageDoc == DumpsError("Usage: ./run_skill.sh '<expression>'")

\* one entry of the log of calculate() calls
Entry(e, c) ==
    [expr |-> e, returned |-> c.returned, doc |-> c.doc, cls |-> c.cls,
     text |-> c.text, evRaised |-> c.evRaised, val |-> c.val]

Init ==
    /\ argv \in CommandLines
    /\ pc = "main"
    /\ stdout = <<>>
    /\ exitCode = 0
    /\ uncaught = ""
    /\ heap = {}
    /\ effects = {}
    /\ history = <<>>

\* an argument check that only rejects a missing argument
ArgCountTooFew(a) == Len(a) < 2

\* line 22: len(sys.argv) != 2
ArgCountWrong(a) == Len(a) # 2

\* lines 22-27: wrong argument count
Usage ==
    /\ pc = "main"
    /\ ArgCountWrong(argv)
    /\ stdout' = Append(stdout, UsageDoc)
    /\ exitCode' = 1
    /\ pc' = "exited"
    /\ UNCHANGED <<argv, uncaught, heap, effects, history>>

\* line 28: print(calculate(sys.argv[1])), then the interpreter exits
Run ==
    /\ pc = "main"
    /\ ~ArgCountWrong(argv)
    /\ \E c \in {Calculate(argv[2], [heap |-> heap, effects |-> effects])} :
           /\ history' = Append(history, Entry(argv[2], c))
           /\ heap' = c.st.heap
           /\ effects' = c.st.effects
           /\ stdout' = IF c.returned THEN Append(stdout, c.doc) ELSE stdout
           /\ uncaught' = IF c.returned THEN "" ELSE c.cls
           /\ exitCode' = IF c.returned THEN 0 ELSE 1
    /\ pc' = "exited"
    /\ UNCHANGED argv

Next == Usage \/ Run

Spec == Init /\ [][Next]_vars

InitLib ==
    /\ argv = <<>>
    /\ pc = "imported"
    /\ stdout = <<>>
    /\ exitCode = 0
    /\ uncaught = ""
    /\ heap = {}
    /\ effects = {}
    /\ history = <<>>

\* a call skill.calculate(e) by the importing process
LibCall(e) ==
    /\ pc = "imported"
    /\ Len(history) < MaxCalls
    /\ \E c \in {Calculate(e, [heap |-> heap, effects |-> effects])} :
           /\ history' = Append(history, Entry(e, c))
           /\ heap' = c.st.heap
           /\ effects' = c.st.effects
           /\ uncaught' = IF c.returned THEN "" ELSE c.cls
           /\ pc' = IF c.returned THEN "imported" ELSE "raised"
    /\ UNCHANGED <<argv, stdout, exitCode>>

NextLib == \E e \in LibInputs : LibCall(e)

SpecLib == InitLib /\ [][NextLib]_vars

(***************************************************************************)
(* The two variants of the structured result, and the log of calls.        *)
(***************************************************************************)
SuccessShape(doc) ==
    /\ Len(doc) = 2
    /\ doc[1] = Item("status", JString("success"))
    /\ doc[2].key = "result"

FailureShape(doc) ==
    /\ Len(doc) = 2
    /\ doc[1] = Item("status", JString("error"))
    /\ doc[2].key = "message"
    /\ doc[2].val.j = "string"

Success(h) == h.returned /\ SuccessShape(h.doc)
Failure(h) == h.returned /\ FailureShape(h.doc)

Calls == {history[i] : i \in 1..Len(history)}
Mentions(e, t) == \E k \in 1..Len(e) : e[k] = t

(***************************************************************************)
(* The mathematical value of an arithmetic expression over the digits,     *)
(* + - * / ** and parentheses, by the textbook rules: an expression is     *)
(* split at its last top-level binary + or -, else at its last top-level   *)
(* * or /, else it is a signed expression, else it is split at its first   *)
(* top-level ** (which binds tighter than a sign on its left and looser    *)
(* than a sign on its right, and associates to the right), else it is a    *)
(* digit or a parenthesised expression.  A value is [valid, def, irr, q,   *)
(* ints]: valid - the tokens form an expression; def - it has a value      *)
(* (no division by zero, no 0 ** 0 or 0 to a negative power, no negative   *)
(* number to a fractional power) that is within the range of numbers       *)
(* carried; irr - the value is irrational, of sign q[1]; q - the value as  *)
(* a fraction in lowest terms; ints - only + - * and ** with non-negative  *)
(* exponents were applied, to integers.                                    *)
(***************************************************************************)
Invalid == [valid |-> FALSE, def |-> FALSE, irr |-> FALSE, q |-> <<0, 1>>, ints |-> FALSE]
Undefined == [valid |-> TRUE, def |-> FALSE, irr |-> FALSE, q |-> <<0, 1>>, ints |-> FALSE]
Rational(q, ints) ==
    IF InRange(q)
    THEN [valid |-> TRUE, def |-> TRUE, irr |-> FALSE, q |-> q, ints |-> ints]
    ELSE Undefined
Irrational(sign) ==
    [valid |-> TRUE, def |-> TRUE, irr |-> TRUE, q |-> <<sign, 0>>, ints |-> FALSE]

MathPow(a, b) ==
    IF b.q[2] = 1
    THEN IF a.q[1] = 0 /\ b.q[1] <= 0 THEN Undefined
         ELSE Rational(RatPow(a.q, b.q[1]), a.ints /\ b.ints /\ b.q[1] >= 0)
    ELSE IF a.q[1] < 0 THEN Undefined
    ELSE IF a.q[1] = 0
    THEN (IF b.q[1] > 0 THEN Rational(<<0, 1>>, FALSE) ELSE Undefined)
    ELSE LET xs == IntRoots(a.q[1], b.q[2])
             ys == IntRoots(a.q[2], b.q[2])
         IN  IF xs = {} \/ ys = {} THEN Irrational(1)
             ELSE Rational(RatPow(<<CHOOSE x \in xs : TRUE, CHOOSE y \in ys : TRUE>>,
                                  b.q[1]), FALSE)

MathBin(op, a, b) ==
    IF ~a.valid \/ ~b.valid THEN Invalid
    ELSE IF ~a.def \/ ~b.def \/ a.irr \/ b.irr THEN Undefined
    ELSE IF op = "**" THEN MathPow(a, b)
    ELSE IF op = "/"
    THEN (IF b.q[1] = 0 THEN Undefined ELSE Rational(RatOp(op, a.q, b.q), FALSE))
    ELSE Rational(RatOp(op, a.q, b.q), a.ints /\ b.ints)

MathSign(op, a) ==
    IF ~a.valid \/ ~a.def \/ op = "+" THEN a
    ELSE [a EXCEPT !.q = <<-a.q[1], a.q[2]>>]

ParenDepth(ts, lo, i) ==
    Cardinality({j \in lo..(i - 1) : ts[j] = "("})
        - Cardinality({j \in lo..(i - 1) : ts[j] = ")"})
TopLevel(ts, lo, hi, ops) ==
    {i \in lo..hi : ts[i] \in ops /\ ParenDepth(ts, lo, i) = 0}
EndsOperand(t) == t \in Digits \cup {")"}
Last(S) == CHOOSE x \in S : \A y \in S : y <= x
First(S) == CHOOSE x \in S : \A y \in S : x <= y

RECURSIVE MathVal(_, _, _)
MathVal(ts, lo, hi) ==
    IF lo > hi THEN Invalid
    ELSE LET adds == {i \in TopLevel(ts, lo, hi, {"+", "-"}) :
                          i > lo /\ EndsOperand(ts[i - 1])}
             muls == TopLevel(ts, lo, hi, {"*", "/"})
             pows == TopLevel(ts, lo, hi, {"**"})
             Split(i) == MathBin(ts[i], MathVal(ts, lo, i - 1), MathVal(ts, i + 1, hi))
         IN  IF adds # {} THEN Split(Last(adds))
             ELSE IF muls # {} THEN Split(Last(muls))
             ELSE IF ts[lo] \in {"+", "-"} THEN MathSign(ts[lo], MathVal(ts, lo + 1, hi))
             ELSE IF pows # {} THEN Split(First(pows))
             ELSE IF lo = hi
             THEN (IF ts[lo] \in Digits THEN Rational(<<DigitValue(ts[lo]), 1>>, TRUE)
                   ELSE Invalid)
             ELSE IF ts[lo] = "(" /\ ts[hi] = ")" THEN MathVal(ts, lo + 1, hi - 1)
             ELSE Invalid

MathValue(e) == MathVal(e, 1, Len(e))
HasValue(e) == MathValue(e).valid /\ MathValue(e).def

\* the result field of a Success document is the number v
ResultNumber(h) == h.doc[2].val.v
IsNumberResult(h) == h.doc[2].val.j = "number" /\ IsNum(ResultNumber(h))

C1_NoFaultPropagates ==
    /\ uncaught = ""
    /\ \A h \in Calls : h.returned /\ (h.cls # "" => FailureShape(h.doc))

(***************************************************************************)
(* C2: every expression that references the disallowed identifier          *)
(* __import__ yields a Failure, never a Success, and performs no side      *)
(* effect.                                                                 *)
(***************************************************************************)
C2_DisallowedIdentifierFails ==
    \A h \in Calls :
        Mentions(h.expr, "__import__") => Failure(h) /\ effects = {} /\ heap = {}

(***************************************************************************)
(* C3: the evaluation namespace exposes no identifier: an expression that  *)
(* is a bare name never yields Success, the keys of the globals mapping    *)
(* included.                                                               *)
(***************************************************************************)
C3_NoNameResolves ==
    \A h \in Calls :
        Len(h.expr) = 1 /\ h.expr[1] \in Names \cup AllowedNames => ~Success(h)

(***************************************************************************)
(* C5: an argument count other than one prints the usage error as a        *)
(* structured error and exits nonzero, without a call of calculate: the    *)
(* outcome is the same whatever the arguments are.                         *)
(***************************************************************************)
C5_UsageErrorOnWrongArgCount ==
    pc = "exited" /\ Len(argv) # 2 =>
        /\ stdout = <<DumpsError("Usage: ./run_skill.sh '<expression>'")>>
        /\ exitCode # 0
        /\ history = <<>>
        /\ uncaught = "" /\ heap = {} /\ effects = {}

\* C5's case: a process given two arguments has exited
C5_Witness == pc = "exited" /\ Len(argv) = 3 /\ exitCode = 1

(***************************************************************************)
(* C6: the exit code is nonzero if and only if the argument count is       *)
(* wrong; with one argument the process exits with the default code        *)
(* whatever the expression.                                                *)
(***************************************************************************)
C6_ExitCodeIffArgCountWrong ==
    pc = "exited" => (exitCode # 0 <=> Len(argv) # 2)

(***************************************************************************)
(* C7: every invocation ends having written exactly one line to standard   *)
(* output, of one of the two shapes.                                       *)
(***************************************************************************)
C7_OneLineOfTwoShapes ==
    pc = "exited" =>
        /\ Len(stdout) = 1
        /\ SuccessShape(stdout[1]) \/ FailureShape(stdout[1])

(***************************************************************************)
(* C8: in any sequence of calculate calls, the same expression yields the  *)
(* same result, and no call leaves state behind that a later call can      *)
(* observe.                                                                *)
(***************************************************************************)
C8_SameExpressionSameResult ==
    /\ heap = {}
    /\ \A g, h \in Calls :
           g.expr = h.expr => g.returned = h.returned /\ g.doc = h.doc

(***************************************************************************)
(* C9: the message of a Failure is the text of the error that was raised:  *)
(* "1/0" gives the message of the zero division, "2+" the message of the   *)
(* syntax error, and the two messages differ.                              *)
(***************************************************************************)
C9_MessageIsErrorText ==
    \A h \in Calls :
        /\ h.returned /\ h.cls # "" =>
               h.doc = <<Item("status", JString("error")),
                         Item("message", JString(h.text))>>
        /\ h.expr = <<"1", "/", "0">> =>
               /\ Failure(h)
               /\ h.cls = "ZeroDivisionError"
               /\ h.doc[2].val.s = "division by zero"
        /\ h.expr = <<"2", "+">> =>
               /\ Failure(h)
               /\ h.cls = "SyntaxError"
               /\ h.doc[2].val.s = "invalid syntax (<string>, line 1)"

\* C9's case: 1/0 was evaluated and reported
C9_Witness ==
    \E h \in Calls :
        h.expr = <<"1", "/", "0">> /\ Failure(h) /\ h.doc[2].val.s = h.text

(***************************************************************************)
(* C10: a Success is returned only for a value json.dumps can serialise;   *)
(* an expression that evaluates without error to a value it cannot         *)
(* serialise yields the Failure variant, not a Success and not an uncaught *)
(* fault.                                                                  *)
(***************************************************************************)
Serializable(v) ==
    \/ v.t \in {"int", "float", "str", "tuple", "NoneType"}
    \/ v.t = "dict" /\ v.n = 0

C10_UnserializableValueFails ==
    \A h \in Calls :
        /\ ~h.evRaised /\ ~Serializable(h.val) =>
               Failure(h) /\ h.cls = "TypeError"
        /\ Success(h) => ~h.evRaised /\ Serializable(h.val)

\* C10's case: ... evaluated to the Ellipsis object, which json.dumps rejects
C10_Witness ==
    \E h \in Calls :
        /\ h.expr = <<"...">>
        /\ ~h.evRaised
        /\ h.val.t = "ellipsis"
        /\ Failure(h)

====
